---- MODULE Spec2Model ----
(***************************************************************************)
(* CloudMiner: the HTTP helper of AzureAutomationSession (request spacing, *)
(* bounded retries), the session operations built on it, the upload-wait   *)
(* loop of PythonScriptExecutor and the linear flow of main.               *)
(*                                                                         *)
(* Time is counted in ticks of half a second, the resolution of            *)
(* TIME_BETWEEN_REQUESTS_SECONDS = 0.5.  time.sleep(s) lets s ticks pass,  *)
(* a request its duration; all other code takes no time.  The program      *)
(* uses readings of time.time() only through their differences, so every   *)
(* timestamp it keeps is held as its distance from the current time.       *)
(***************************************************************************)
EXTENDS Integers, Sequences, FiniteSets, TLC

\* ------------------------------------------------------------------ bounds
\* retries arguments tried on the helper alone: 0..MaxRetries
MaxRetries == 3
\* helper calls issued in a row on one session, when the helper is run alone
MaxCalls == 2
\* a request that answers takes 0..MaxDuration ticks
MaxDuration == 1
\* --count values tried: -1 and 0..MaxCount
MaxCount == 1
\* the time a wait has taken is counted up to this tick
MaxElapsed == 1000
\* the polls of a wait are counted up to this number
MaxPolls == 20

\* --------------------------------------------------------------- constants
TicksPerSecond == 2
UPLOAD_TIMEOUT == 300 * TicksPerSecond
SLEEP_BETWEEN_ERROR_SECONDS == 10 * TicksPerSecond
TIME_BETWEEN_REQUESTS_SECONDS == TicksPerSecond \div 2
HTTP_REQUEST_TIMEOUT == 5 * TicksPerSecond
DEFAULT_RETRIES == 5
\* a check interval of ten seconds
UPLOAD_STATE_CHECK_INTERVAL_TEN == 10 * TicksPerSecond
UPLOAD_STATE_CHECK_INTERVAL_SECONDS == 20 * TicksPerSecond

\* http.HTTPStatus members the code names
OK == 200
BAD_REQUEST == 400
UNAUTHORIZED == 401
NOT_FOUND == 404
TOO_MANY_REQUESTS == 429
INTERNAL_SERVER_ERROR == 500
BAD_GATEWAY == 502
SERVICE_UNAVAILABLE == 503
GATEWAY_TIMEOUT == 504

\* Status codes a server answers with (one success code, the codes the code
\* tests for, and two 5xx codes it does not name).
Statuses == {OK, BAD_REQUEST, UNAUTHORIZED, NOT_FOUND, TOO_MANY_REQUESTS,
             INTERNAL_SERVER_ERROR, BAD_GATEWAY, SERVICE_UNAVAILABLE, GATEWAY_TIMEOUT}

\* Exceptions requests.request raises.  "ConnectError" is
\* requests.exceptions.ConnectionError (with ConnectTimeout, SSLError, ...);
\* "BuiltinConnectionError" is Python's builtin ConnectionError (an OSError).
TransportExceptions == {"ReadTimeout", "ChunkedEncodingError",
                        "BuiltinConnectionError", "ConnectError"}

\* The except clause of __http_request: ReadTimeout and ChunkedEncodingError are
\* imported from requests.exceptions; the name ConnectionError is not imported,
\* so it is the builtin, which requests.exceptions.ConnectionError is no
\* subclass of.
CaughtExceptions == {"ReadTimeout", "ChunkedEncodingError", "BuiltinConnectionError"}

\* The status codes __http_request sleeps and retries on.
RetryStatuses == {TOO_MANY_REQUESTS, GATEWAY_TIMEOUT, SERVICE_UNAVAILABLE}

\* raise_for_status as if it raised for server errors only
RaiseForStatusServerOnly(status) == 500 <= status /\ status < 600

\* requests.Response.raise_for_status raises HTTPError for 4xx and 5xx.
RaiseForStatus(status) == 400 <= status /\ status < 600

\* What one attempt of the helper can end in.
Outcomes == [kind : {"response"}, status : Statuses, exc : {"none"}]
            \cup [kind : {"exception"}, status : {0}, exc : TransportExceptions]

\* resp is None or resp.status_code in [...]; resp is None after a caught exception
IsTransient(o) ==
    \/ o.kind = "exception" /\ o.exc \in CaughtExceptions
    \/ o.kind = "response" /\ o.status \in RetryStatuses

\* How long the attempt takes: a read timeout takes the timeout given to
\* requests.request, anything else answers within slowest ticks.
DurationsOf(o, slowest) ==
    IF o.kind = "exception" /\ o.exc = "ReadTimeout"
    THEN {HTTP_REQUEST_TIMEOUT}
    ELSE 0..slowest

\* What a function hands to its caller: nothing yet, a return value (val), or an
\* exception (its class in kind, what tells it apart in val, the status code of
\* e.response for an HTTPError).
NoResult == [kind |-> "none", val |-> "none", status |-> 0]
Returned(status) == [kind |-> "return", val |-> "response", status |-> status]
ReturnedNone == [kind |-> "return", val |-> "none", status |-> 0]
HTTPError(status) == [kind |-> "HTTPError", val |-> "raise_for_status", status |-> status]
CloudMinerException(msg) == [kind |-> "CloudMinerException", val |-> msg, status |-> 0]
TransportException(exc) == [kind |-> "TransportException", val |-> exc, status |-> 0]

IsException(r) == r.kind \in {"HTTPError", "CloudMinerException", "TransportException"}

\* resp = None
RespNone == 0

NoCall == [method |-> "none", target |-> "none", auth |-> FALSE, retries |-> 0]
NoRequest == [target |-> "none", method |-> "none", auth |-> FALSE]

VARIABLES
    maxd,                 \* the longest a request takes to be answered in this run
    next_request_time,    \* self.__next_request_time, as the time left until it (0 once reached)
    current_temp_storage_url, \* self.__current_temp_storage_url
    access_token,         \* self.__access_token
    hpc,                  \* position in __http_request: idle, wait, loop, done
    hargs,                \* its arguments
    hi,                   \* attempts consumed by the for loop
    resp,                 \* its local resp: RespNone or the status code of the response
    hres,                 \* its result (return value or exception)
    hsent,                \* requests sent by this call
    hslept,               \* error sleeps of this call
    nreq,                 \* requests sent on the session (counted to 2)
    sinceReq,             \* time since the last request started (counted to a spacing)
    reqGap,               \* time from the request before the last to the last (counted to a spacing)
    lastReq,              \* the last request sent: target, method, Authorization
    uploadSent,           \* a request of an upload was sent
    pc,                   \* position of the caller of the helper
    calls,                \* helper calls issued when the helper is run alone
    entry,                \* the function under study: main, wait or http
    args,                 \* argparse.Namespace of main
    result,               \* how the function under study ended
    steps,                \* the steps main has taken, in order
    validation,           \* what the validation request of the constructor came back with
    index,                \* loop variable of execute_script
    upload,               \* the upload in progress: its kind and link
    uploaded,             \* payloads whose upload completed, by kind
    polled,               \* payloads a poll was sent for, by kind
    pip_package,          \* the local pip_package of _delete_pip_if_exists
    timeout_seconds,      \* argument of _wait_for_package_upload
    elapsed,              \* time.time() - start_time of the wait in progress
    upload_state,         \* the provisioning state last read
    polls                 \* polls sent by the wait in progress

sessVars == <<next_request_time, current_temp_storage_url, access_token>>
helperVars == <<hpc, hargs, hi, resp, hres, hsent, hslept>>
reqVars == <<nreq, sinceReq, reqGap, lastReq, uploadSent>>
waitVars == <<timeout_seconds, elapsed, upload_state, polls>>
execVars == <<index, upload, uploaded, polled, pip_package>>
mainVars == <<maxd, entry, args, result, steps, validation>>
vars == <<sessVars, helperVars, reqVars, waitVars, execVars, mainVars, pc, calls>>

\* ------------------------------------------------------------------ clocks

\* What is left of a delay after d ticks.
Later(left, d) == IF left > d THEN left - d ELSE 0

\* The time since an event d ticks later, counted to a spacing.
Since(s, d) ==
    IF s + d < TIME_BETWEEN_REQUESTS_SECONDS THEN s + d ELSE TIME_BETWEEN_REQUESTS_SECONDS

\* the deadline as if it were taken anew from the current time at each test:
\* no time has ever passed since the start
ElapsedFrozen(e, d, at) == e

\* time.time() - start_time d ticks later; start_time exists while
\* _wait_for_package_upload runs.
Elapsed(e, d, at) ==
    IF at \in {"wait_loop", "wait_get"}
    THEN (IF e + d < MaxElapsed THEN e + d ELSE MaxElapsed)
    ELSE e

\* ------------------------------------------------------------ HTTP helper

\* A call of self.__http_request(method, url, add_auth_info, retries): the frame
\* is set up and control enters the function.
HttpCall(method, target, auth, retries) ==
    /\ hpc' = "wait"
    /\ hargs' = [method |-> method, target |-> target, auth |-> auth, retries |-> retries]
    /\ hi' = 0
    /\ resp' = RespNone
    /\ hres' = NoResult
    /\ hsent' = 0
    /\ hslept' = 0

\* __wait_for_next_request: how long it sleeps when time_gap is left until
\* self.__next_request_time
SleepBeforeRequest(time_gap) == IF time_gap > 0 THEN time_gap ELSE 0

\* __wait_for_next_request, then the header set-up of __http_request
WaitForNextRequest ==
    /\ hpc = "wait"
    /\ LET slept == SleepBeforeRequest(next_request_time)
       IN /\ sinceReq' = Since(sinceReq, slept)
          /\ elapsed' = Elapsed(elapsed, slept, pc)
    /\ next_request_time' = TIME_BETWEEN_REQUESTS_SECONDS
    /\ hpc' = "loop"
    /\ UNCHANGED <<current_temp_storage_url, access_token,
                   hargs, hi, resp, hres, hsent, hslept,
                   nreq, reqGap, lastReq, uploadSent,
                   timeout_seconds, upload_state, polls,
                   execVars, mainVars, pc, calls>>

\* The requests of an upload: the GET of the link and the two PUTs.
IsUploadRequest(call) == call.target = "sas" \/ call.method = "PUT"

\* An iteration that sleeps only when another attempt is left
HttpAttemptNoLastSleep ==
    /\ hpc = "loop"
    /\ hi < hargs.retries
    /\ \E o \in Outcomes : \E d \in DurationsOf(o, maxd) :
        LET sleeps == IsTransient(o) /\ hi + 1 < hargs.retries
            passed == IF sleeps THEN d + SLEEP_BETWEEN_ERROR_SECONDS ELSE d
        IN
        /\ hsent' = hsent + 1
        /\ nreq' = IF nreq < 2 THEN nreq + 1 ELSE nreq
        /\ reqGap' = sinceReq
        /\ sinceReq' = Since(0, passed)
        /\ next_request_time' = Later(next_request_time, passed)
        /\ elapsed' = Elapsed(elapsed, passed, pc)
        /\ lastReq' = [target |-> hargs.target, method |-> hargs.method, auth |-> hargs.auth]
        /\ uploadSent' = (uploadSent \/ IsUploadRequest(hargs))
        /\ resp' = IF o.kind = "response" THEN o.status ELSE RespNone
        /\ IF o.kind = "exception" /\ o.exc \notin CaughtExceptions
           THEN /\ hres' = TransportException(o.exc)
                /\ hpc' = "done"
                /\ UNCHANGED <<hi, hslept>>
           ELSE IF IsTransient(o)
           THEN /\ hslept' = IF sleeps THEN hslept + 1 ELSE hslept
                /\ hi' = hi + 1
                /\ UNCHANGED <<hres, hpc>>
           ELSE /\ hres' = IF RaiseForStatus(o.status)
                           THEN HTTPError(o.status) ELSE Returned(o.status)
                /\ hpc' = "done"
                /\ UNCHANGED <<hi, hslept>>
    /\ UNCHANGED <<current_temp_storage_url, access_token, hargs,
                   timeout_seconds, upload_state, polls, execVars, mainVars, pc, calls>>

\* One iteration of `for _ in range(retries)`: the request is sent and its
\* outcome handled.
HttpAttempt ==
    /\ hpc = "loop"
    /\ hi < hargs.retries
    /\ \E o \in Outcomes : \E d \in DurationsOf(o, maxd) :
        LET passed == IF IsTransient(o) THEN d + SLEEP_BETWEEN_ERROR_SECONDS ELSE d
        IN
        /\ hsent' = hsent + 1
        /\ nreq' = IF nreq < 2 THEN nreq + 1 ELSE nreq
        /\ reqGap' = sinceReq
        /\ sinceReq' = Since(0, passed)
        /\ next_request_time' = Later(next_request_time, passed)
        /\ elapsed' = Elapsed(elapsed, passed, pc)
        /\ lastReq' = [target |-> hargs.target, method |-> hargs.method, auth |-> hargs.auth]
        /\ uploadSent' = (uploadSent \/ IsUploadRequest(hargs))
        /\ resp' = IF o.kind = "response" THEN o.status ELSE RespNone
        /\ IF o.kind = "exception" /\ o.exc \notin CaughtExceptions
           THEN \* the exception leaves __http_request
                /\ hres' = TransportException(o.exc)
                /\ hpc' = "done"
                /\ UNCHANGED <<hi, hslept>>
           ELSE IF IsTransient(o)
           THEN /\ hslept' = hslept + 1
                /\ hi' = hi + 1
                /\ UNCHANGED <<hres, hpc>>
           ELSE /\ hres' = IF RaiseForStatus(o.status)
                           THEN HTTPError(o.status) ELSE Returned(o.status)
                /\ hpc' = "done"
                /\ UNCHANGED <<hi, hslept>>
    /\ UNCHANGED <<current_temp_storage_url, access_token, hargs,
                   timeout_seconds, upload_state, polls, execVars, mainVars, pc, calls>>

\* The else clause of the for loop: every attempt was consumed.
HttpExhausted ==
    /\ hpc = "loop"
    /\ hi >= hargs.retries
    /\ hres' = CloudMinerException("max retries")
    /\ hpc' = "done"
    /\ UNCHANGED <<sessVars, hargs, hi, resp, hsent, hslept,
                   reqVars, waitVars, execVars, mainVars, pc, calls>>

\* ------------------------------------------------- the helper on its own

\* A caller that issues helper calls one after another on one session, with
\* every retries argument and both add_auth_info values.
DriverCall ==
    /\ pc = "driver"
    /\ hpc \in {"idle", "done"}
    /\ calls < MaxCalls
    /\ \E n \in 0..MaxRetries, auth \in BOOLEAN :
          HttpCall("GET", "account", auth, n)
    /\ calls' = calls + 1
    /\ UNCHANGED <<sessVars, reqVars, waitVars, execVars, mainVars, pc>>

NoArgs == [path |-> FALSE, requirements |-> "none", token |-> "none",
           ext |-> "none", count |-> 0]
NoUpload == [kind |-> "none", link |-> 0, reg |-> 0, seq |-> 0]
NoCounts == [module |-> 0, pip |-> 0, dummy |-> 0]

\* No function has run yet and no request was sent.
NoFrames ==
    /\ hpc = "idle"
    /\ hargs = NoCall
    /\ hi = 0
    /\ resp = RespNone
    /\ hres = NoResult
    /\ hsent = 0
    /\ hslept = 0
    /\ nreq = 0
    /\ sinceReq = TIME_BETWEEN_REQUESTS_SECONDS
    /\ reqGap = TIME_BETWEEN_REQUESTS_SECONDS
    /\ lastReq = NoRequest
    /\ uploadSent = FALSE
    /\ calls = 0
    /\ result = NoResult
    /\ steps = <<>>
    /\ validation = NoResult
    /\ index = 0
    /\ polled = {}
    /\ pip_package = "unset"
    /\ elapsed = 0
    /\ upload_state = "none"
    /\ polls = 0

InitHttp ==
    /\ next_request_time = 0
    /\ current_temp_storage_url = 0
    /\ access_token = "token"
    /\ NoFrames
    /\ maxd = MaxDuration
    /\ args = NoArgs
    /\ upload = NoUpload
    /\ uploaded = NoCounts
    /\ timeout_seconds = 0
    /\ entry = "http"
    /\ pc = "driver"

NextHttp ==
    \/ DriverCall
    \/ WaitForNextRequest
    \/ HttpAttempt
    \/ HttpExhausted

SpecHttp == InitHttp /\ [][NextHttp]_vars

\* ------------------------------------------------------ session operations

\* A call of the helper that leaves add_auth_info at its default, True
RequestAlwaysAuth(method, target, auth) == HttpCall(method, target, TRUE, DEFAULT_RETRIES)

\* A call of the helper with its default retries.
Request(method, target, auth) == HttpCall(method, target, auth, DEFAULT_RETRIES)

\* The helper's result has been taken by its caller, which goes on without
\* calling it again.
HelperReturned ==
    /\ hpc' = "idle"
    /\ UNCHANGED <<hargs, hi, resp, hres, hsent, hslept>>

\* The function under study ends: it returns or an exception leaves it.
Finish(r) ==
    /\ pc' = "done"
    /\ result' = r

\* UPLOAD_STATE
UPLOAD_STATES == {"Failed", "Creating", "Succeeded", "ContentValidated",
                  "ContentDownloaded", "ConnectionTypeImported",
                  "RunningImportModuleRunbook"}

\* What .json() of a package GET holds: an empty object, or a package with a
\* provisioningState of the enum or another string.
PackageData == {"empty"} \cup UPLOAD_STATES \cup {"Other"}

\* a test for None in place of the test for a true value
TruthyNotNone(data) == data # "None"

\* `if pip_package:` and `if not package_data:`
Truthy(data) == data \notin {"None", "empty"}

\* get_python_package: r is the helper's result, data the body of a response
get_python_package(r, data) ==
    IF r.kind = "HTTPError"
    THEN IF r.status = NOT_FOUND
         THEN [kind |-> "return", val |-> "None", status |-> 0]
         ELSE r
    ELSE IF IsException(r)
    THEN r
    ELSE [kind |-> "return", val |-> data, status |-> r.status]

\* delete_python_package without its except clause
delete_python_package_unmapped(r) ==
    IF IsException(r) THEN r ELSE ReturnedNone

\* delete_python_package: r is the helper's result
delete_python_package(r) ==
    IF r.kind = "HTTPError"
    THEN IF r.status = NOT_FOUND
         THEN CloudMinerException("package does not exist")
         ELSE r
    ELSE IF IsException(r)
    THEN r
    ELSE ReturnedNone

\* The except clause of __init__ without its last, bare raise
SessionInitResultNoRaise(r) ==
    IF r.kind = "HTTPError"
    THEN IF r.status = UNAUTHORIZED
         THEN CloudMinerException("invalid access token")
         ELSE IF r.status = BAD_REQUEST
         THEN CloudMinerException("invalid account id")
         ELSE IF r.status = NOT_FOUND
         THEN CloudMinerException("account does not exist")
         ELSE ReturnedNone
    ELSE IF IsException(r)
    THEN r
    ELSE ReturnedNone

\* The except clause of AzureAutomationSession.__init__: r is the helper's result
SessionInitResult(r) ==
    IF r.kind = "HTTPError"
    THEN IF r.status = UNAUTHORIZED
         THEN CloudMinerException("invalid access token")
         ELSE IF r.status = BAD_REQUEST
         THEN CloudMinerException("invalid account id")
         ELSE IF r.status = NOT_FOUND
         THEN CloudMinerException("account does not exist")
         ELSE r
    ELSE IF IsException(r)
    THEN r
    ELSE ReturnedNone

\* upload_powershell_module / upload_python_package enter
\* __upload_file_to_temp_storage, which asks for a temporary storage link.
BeginUpload(kind) ==
    /\ Request("GET", "sas", TRUE)
    /\ upload' = [kind |-> kind, link |-> 0, reg |-> 0,
                  seq |-> upload.seq + 1]
    /\ pc' = "up_sas"

\* __upload_file_to_temp_storage as if the link went into a local variable and
\* the session's field kept what it held
UploadSasLinkNotKept ==
    /\ pc = "up_sas"
    /\ hpc = "done"
    /\ IF IsException(hres)
       THEN /\ Finish(hres)
            /\ HelperReturned
            /\ UNCHANGED upload
       ELSE /\ upload' = [upload EXCEPT !.link = upload.seq]
            /\ Request("PUT", "blob", FALSE)
            /\ pc' = "up_blob"
            /\ UNCHANGED result
    /\ UNCHANGED <<sessVars, reqVars, waitVars,
                   index, uploaded, polled, pip_package, maxd, entry, args, steps, validation, calls>>

\* __upload_file_to_temp_storage after the GET: the link is kept in the session
\* and the file is PUT to it, without the Authorization header.
UploadSas ==
    /\ pc = "up_sas"
    /\ hpc = "done"
    /\ IF IsException(hres)
       THEN /\ Finish(hres)
            /\ HelperReturned
            /\ UNCHANGED <<current_temp_storage_url, upload>>
       ELSE /\ current_temp_storage_url' = upload.seq
            /\ upload' = [upload EXCEPT !.link = upload.seq]
            /\ Request("PUT", "blob", FALSE)
            /\ pc' = "up_blob"
            /\ UNCHANGED result
    /\ UNCHANGED <<next_request_time, access_token, reqVars, waitVars,
                   index, uploaded, polled, pip_package, maxd, entry, args, steps, validation, calls>>

\* The target of the registration PUT of an upload.
RegistrationTarget(kind) == IF kind = "module" THEN "module" ELSE "package"

\* __upload_file_to_temp_storage as if it dropped the session's link once the
\* file is stored
UploadBlobDropsLink ==
    /\ pc = "up_blob"
    /\ hpc = "done"
    /\ IF IsException(hres)
       THEN /\ Finish(hres)
            /\ HelperReturned
            /\ UNCHANGED <<upload, current_temp_storage_url>>
       ELSE /\ upload' = [upload EXCEPT !.reg = current_temp_storage_url]
            /\ current_temp_storage_url' = 0
            /\ Request("PUT", RegistrationTarget(upload.kind), TRUE)
            /\ pc' = "up_reg"
            /\ UNCHANGED result
    /\ UNCHANGED <<next_request_time, access_token, reqVars, waitVars,
                   index, uploaded, polled, pip_package, maxd, entry, args, steps, validation, calls>>

\* __upload_file_to_temp_storage returns the session's link; the module or
\* package is registered with it as contentLink.
UploadBlob ==
    /\ pc = "up_blob"
    /\ hpc = "done"
    /\ IF IsException(hres)
       THEN /\ Finish(hres)
            /\ HelperReturned
            /\ UNCHANGED upload
       ELSE /\ upload' = [upload EXCEPT !.reg = current_temp_storage_url]
            /\ Request("PUT", RegistrationTarget(upload.kind), TRUE)
            /\ pc' = "up_reg"
            /\ UNCHANGED result
    /\ UNCHANGED <<sessVars, reqVars, waitVars,
                   index, uploaded, polled, pip_package, maxd, entry, args, steps, validation, calls>>

\* execute_script without its call of _wait_for_package_upload
AfterUploadNoWait(kind) ==
    IF kind = "module" THEN "ps_loop" ELSE "py_loop"

\* Where execute_script goes on after an upload of this kind.
AfterUpload(kind) ==
    IF kind = "module" THEN "ps_loop"
    ELSE IF kind = "pip" THEN "wait_start"
    ELSE "py_loop"

\* The registration PUT is back: the upload returns to execute_script.
UploadReg ==
    /\ pc = "up_reg"
    /\ hpc = "done"
    /\ HelperReturned
    /\ IF IsException(hres)
       THEN /\ Finish(hres)
            /\ UNCHANGED <<uploaded, index, timeout_seconds>>
       ELSE /\ uploaded' = [uploaded EXCEPT ![upload.kind] = @ + 1]
            /\ pc' = AfterUpload(upload.kind)
            /\ index' = IF upload.kind = "pip" THEN index ELSE index + 1
            /\ timeout_seconds' = IF upload.kind = "pip" THEN UPLOAD_TIMEOUT
                                  ELSE timeout_seconds
            /\ UNCHANGED result
    /\ UNCHANGED <<sessVars, reqVars, elapsed, upload_state,
                   polls, upload, polled, pip_package, maxd, entry, args, steps, validation, calls>>

\* ------------------------------------------------------ the upload-wait loop

\* _wait_for_package_upload, lines 100-103
WaitStart ==
    /\ pc = "wait_start"
    /\ elapsed' = 0
    /\ polls' = 0
    /\ upload_state' = "none"
    /\ pc' = "wait_loop"
    /\ UNCHANGED <<sessVars, helperVars, reqVars, timeout_seconds,
                   execVars, mainVars, calls>>

\* while time.time() <= end_time
LoopConditionInclusive(e, timeout) == e <= timeout

\* a while loop that does not test the deadline
LoopConditionNoDeadline(e, timeout) == TRUE

\* while time.time() < end_time, where end_time = start_time + timeout_seconds
LoopCondition(e, timeout) == e < timeout

\* The test of the while loop: another poll, or the else clause.  The state read
\* by the poll before is not read again, and is forgotten.
WaitLoop ==
    /\ pc = "wait_loop"
    /\ IF LoopCondition(elapsed, timeout_seconds)
       THEN /\ Request("GET", "package", TRUE)
            /\ polls' = IF polls < MaxPolls THEN polls + 1 ELSE MaxPolls
            /\ polled' = polled \cup {upload.kind}
            /\ upload_state' = "none"
            /\ pc' = "wait_get"
            /\ UNCHANGED result
       ELSE /\ Finish(CloudMinerException("upload timed out"))
            /\ UNCHANGED <<helperVars, polls, polled, upload_state>>
    /\ UNCHANGED <<sessVars, reqVars, timeout_seconds, elapsed,
                   index, upload, uploaded, pip_package,
                   maxd, entry, args, steps, validation, calls>>

\* The loop body as if a state outside the enum were a failure
WaitStepUnknownFails(r) ==
    IF IsException(r) THEN [do |-> "raise", exc |-> r]
    ELSE IF ~Truthy(r.val)
    THEN [do |-> "raise", exc |-> CloudMinerException("upload did not start")]
    ELSE IF r.val = "Succeeded" THEN [do |-> "break", exc |-> NoResult]
    ELSE IF r.val = "Failed" \/ r.val \notin UPLOAD_STATES
    THEN [do |-> "raise", exc |-> CloudMinerException("upload failed")]
    ELSE [do |-> "sleep", exc |-> NoResult]

\* The loop body without its test for UPLOAD_STATE.FAILED
WaitStepFailedUntested(r) ==
    IF IsException(r) THEN [do |-> "raise", exc |-> r]
    ELSE IF ~Truthy(r.val)
    THEN [do |-> "raise", exc |-> CloudMinerException("upload did not start")]
    ELSE IF r.val = "Succeeded" THEN [do |-> "break", exc |-> NoResult]
    ELSE [do |-> "sleep", exc |-> NoResult]

\* What _wait_for_package_upload does with what get_python_package gave it:
\* "raise" with an exception, "break" or "sleep".
WaitStep(r) ==
    IF IsException(r) THEN [do |-> "raise", exc |-> r]
    ELSE IF ~Truthy(r.val)
    THEN [do |-> "raise", exc |-> CloudMinerException("upload did not start")]
    ELSE IF r.val = "Succeeded" THEN [do |-> "break", exc |-> NoResult]
    ELSE IF r.val = "Failed"
    THEN [do |-> "raise", exc |-> CloudMinerException("upload failed")]
    ELSE [do |-> "sleep", exc |-> NoResult]

\* The body of the while loop once get_python_package is back.
WaitPoll ==
    /\ pc = "wait_get"
    /\ hpc = "done"
    /\ HelperReturned
    /\ \E data \in PackageData :
         LET r == get_python_package(hres, data)
             step == WaitStep(r)
         IN /\ upload_state' = IF IsException(r) THEN upload_state ELSE r.val
            /\ IF step.do = "raise"
               THEN /\ Finish(step.exc)
                    /\ UNCHANGED <<next_request_time, sinceReq, elapsed, index>>
               ELSE IF step.do = "break"
               THEN /\ IF entry = "wait"
                       THEN Finish(ReturnedNone) /\ UNCHANGED <<index, elapsed>>
                       ELSE \* back in execute_script, whose for loop starts
                            /\ pc' = "py_loop"
                            /\ index' = 0
                            /\ elapsed' = 0
                            /\ UNCHANGED result
                    /\ UNCHANGED <<next_request_time, sinceReq>>
               ELSE \* time.sleep(UPLOAD_STATE_CHECK_INTERVAL_SECONDS)
                    /\ next_request_time' =
                           Later(next_request_time, UPLOAD_STATE_CHECK_INTERVAL_SECONDS)
                    /\ sinceReq' = Since(sinceReq, UPLOAD_STATE_CHECK_INTERVAL_SECONDS)
                    /\ elapsed' = Elapsed(elapsed, UPLOAD_STATE_CHECK_INTERVAL_SECONDS, pc)
                    /\ pc' = "wait_loop"
                    /\ UNCHANGED <<result, index>>
    /\ UNCHANGED <<current_temp_storage_url, access_token,
                   nreq, reqGap, lastReq, uploadSent, timeout_seconds,
                   polls, upload, uploaded, polled, pip_package, maxd, entry, args, steps, validation, calls>>

\* timeout_seconds values tried on the wait alone, in seconds
TimeoutChoices == {-1, 0, 30, 300}

\* The wait alone: the upload of 'pip' was just registered on a session, whose
\* last request started at most a spacing ago.
InitWait ==
    /\ next_request_time \in 0..TIME_BETWEEN_REQUESTS_SECONDS
    /\ current_temp_storage_url = 1
    /\ access_token = "token"
    /\ NoFrames
    /\ maxd = 0
    /\ args = NoArgs
    /\ upload = [kind |-> "pip", link |-> 1, reg |-> 1, seq |-> 1]
    /\ uploaded = [NoCounts EXCEPT !.pip = 1]
    /\ timeout_seconds \in {t * TicksPerSecond : t \in TimeoutChoices}
    /\ entry = "wait"
    /\ pc = "wait_start"

NextWait ==
    \/ WaitStart
    \/ WaitLoop
    \/ WaitPoll
    \/ WaitForNextRequest
    \/ HttpAttempt
    \/ HttpExhausted

SpecWait == InitWait /\ [][NextWait]_vars

\* The program is one thread that runs until it returns or raises: a step that
\* can be taken is taken.
FairSpecWait == SpecWait /\ WF_vars(NextWait)

\* ------------------------------------------------------------- executors

\* for index in range(count + 1)
PsLoopOneMore ==
    /\ pc = "ps_loop"
    /\ IF index < args.count + 1
       THEN /\ BeginUpload("module")
            /\ UNCHANGED result
       ELSE /\ Finish(ReturnedNone)
            /\ UNCHANGED <<helperVars, upload>>
    /\ UNCHANGED <<sessVars, reqVars, waitVars, index, uploaded, polled, pip_package,
                   maxd, entry, args, steps, validation, calls>>

\* PowershellScriptExecutor.execute_script: the test of the for loop, then a
\* module of a fresh name is zipped and its upload begins, or the loop is over
\* and main returns.
PsLoop ==
    /\ pc = "ps_loop"
    /\ IF index < args.count
       THEN /\ BeginUpload("module")
            /\ UNCHANGED result
       ELSE /\ Finish(ReturnedNone)
            /\ UNCHANGED <<helperVars, upload>>
    /\ UNCHANGED <<sessVars, reqVars, waitVars, index, uploaded, polled, pip_package,
                   maxd, entry, args, steps, validation, calls>>

\* PythonScriptExecutor.execute_script enters _delete_pip_if_exists, which asks
\* for the package 'pip'.
PyStart ==
    /\ pc = "py_start"
    /\ Request("GET", "package", TRUE)
    /\ pc' = "pip_get"
    /\ UNCHANGED <<sessVars, reqVars, waitVars, execVars, mainVars, calls>>

\* _delete_pip_if_exists once get_python_package is back: what it returned is
\* kept in pip_package.
PipGet ==
    /\ pc = "pip_get"
    /\ hpc = "done"
    /\ HelperReturned
    /\ \E data \in PackageData :
         LET r == get_python_package(hres, data)
         IN IF IsException(r)
            THEN /\ Finish(r)
                 /\ UNCHANGED pip_package
            ELSE /\ pip_package' = r.val
                 /\ pc' = "pip_check"
                 /\ UNCHANGED result
    /\ UNCHANGED <<sessVars, reqVars, waitVars, index, upload, uploaded, polled,
                   maxd, entry, args, steps, validation, calls>>

\* `if pip_package:` 'pip' is deleted if it is there; if not,
\* _delete_pip_if_exists returns, the wheel is built and the upload of 'pip'
\* begins.  pip_package is not read again.
PipCheck ==
    /\ pc = "pip_check"
    /\ pip_package' = "unset"
    /\ IF Truthy(pip_package)
       THEN /\ Request("DELETE", "package", TRUE)
            /\ pc' = "pip_del"
            /\ UNCHANGED upload
       ELSE BeginUpload("pip")
    /\ UNCHANGED <<sessVars, reqVars, waitVars, index, uploaded, polled, result,
                   maxd, entry, args, steps, validation, calls>>

\* delete_python_package is back: the wheel is built and the upload of 'pip' begins.
PipDel ==
    /\ pc = "pip_del"
    /\ hpc = "done"
    /\ LET r == delete_python_package(hres)
       IN IF IsException(r)
          THEN /\ Finish(r)
               /\ HelperReturned
               /\ UNCHANGED upload
          ELSE /\ BeginUpload("pip")
               /\ UNCHANGED result
    /\ UNCHANGED <<sessVars, reqVars, waitVars, index, uploaded, polled, pip_package,
                   maxd, entry, args, steps, validation, calls>>

\* PythonScriptExecutor.execute_script: the test of the for loop, then the
\* upload of the dummy package under a fresh name begins, or the loop is over
\* and main returns.
PyLoop ==
    /\ pc = "py_loop"
    /\ IF index < args.count
       THEN /\ BeginUpload("dummy")
            /\ UNCHANGED result
       ELSE /\ Finish(ReturnedNone)
            /\ UNCHANGED <<helperVars, upload>>
    /\ UNCHANGED <<sessVars, reqVars, waitVars, index, uploaded, polled, pip_package,
                   maxd, entry, args, steps, validation, calls>>

\* -------------------------------------------------------------------- main

\* What the Azure CLI does when asked for a token.
CliOutcomes == {"token", "not installed", "not logged in", "no token"}

\* get_access_token_from_cli() called whatever args.token is
NeedsCliAlways(token) == TRUE

\* args.token or get_access_token_from_cli(): the CLI is asked when the
\* argument is None or the empty string.
NeedsCli(token) == token \in {"none", "empty"}

\* What main reads of args after the session is constructed: the extension of
\* args.path and args.count (args.requirements goes into the wheel's script).
Live(a) == [a EXCEPT !.token = "read", !.requirements = "read"]

\* main, lines 53-65: the path checks, the access token, and the session's
\* constructor up to its validation request.
MainStart ==
    /\ pc = "main"
    /\ args' = Live(args)
    /\ IF ~args.path
       THEN /\ Finish(CloudMinerException("script path does not exist"))
            /\ steps' = <<"paths">>
            /\ UNCHANGED <<helperVars, access_token, next_request_time>>
       ELSE IF args.requirements = "missing"
       THEN /\ Finish(CloudMinerException("requirements path does not exist"))
            /\ steps' = <<"paths">>
            /\ UNCHANGED <<helperVars, access_token, next_request_time>>
       ELSE IF ~NeedsCli(args.token)
       THEN /\ steps' = <<"paths", "token", "session">>
            /\ access_token' = "argument"
            /\ next_request_time' = 0
            /\ Request("GET", "account", TRUE)
            /\ pc' = "init"
            /\ UNCHANGED result
       ELSE \E cli \in CliOutcomes :
             IF cli = "token"
             THEN /\ steps' = <<"paths", "cli", "token", "session">>
                  /\ access_token' = "cli"
                  /\ next_request_time' = 0
                  /\ Request("GET", "account", TRUE)
                  /\ pc' = "init"
                  /\ UNCHANGED result
             ELSE /\ Finish(CloudMinerException(cli))
                  /\ steps' = <<"paths", "cli">>
                  /\ UNCHANGED <<helperVars, access_token, next_request_time>>
    /\ UNCHANGED <<current_temp_storage_url, reqVars, waitVars, execVars,
                   maxd, entry, validation, calls>>

\* AzureAutomationSession.__init__ once the validation request is back.
SessionInit ==
    /\ pc = "init"
    /\ hpc = "done"
    /\ HelperReturned
    /\ validation' = hres
    /\ LET r == SessionInitResult(hres)
       IN IF IsException(r)
          THEN Finish(r)
          ELSE pc' = "select" /\ UNCHANGED result
    /\ UNCHANGED <<sessVars, reqVars, waitVars, execVars,
                   maxd, entry, args, steps, calls>>

\* main, lines 67-80: the executor is picked by the file extension and its
\* execute_script is entered.
SelectExecutor ==
    /\ pc = "select"
    /\ IF args.ext = ".ps1"
       THEN /\ pc' = "ps_loop"
            /\ index' = 0
            /\ steps' = steps \o <<"executor", "execute">>
            /\ UNCHANGED result
       ELSE IF args.ext = ".py"
       THEN /\ pc' = "py_start"
            /\ steps' = steps \o <<"executor", "execute">>
            /\ UNCHANGED <<result, index>>
       ELSE /\ Finish(CloudMinerException("unsupported file extension"))
            /\ steps' = Append(steps, "executor")
            /\ UNCHANGED index
    /\ UNCHANGED <<sessVars, helperVars, reqVars, waitVars,
                   upload, uploaded, polled, pip_package, maxd, entry, args, validation, calls>>

\* --count is parsed with type=int: any integer, negative ones included.
Counts == {-1} \cup (0..MaxCount)

\* The command lines main is run with.
Arguments == [path : BOOLEAN, requirements : {"none", "missing", "exists"},
              token : {"none", "empty", "given"},
              ext : {".ps1", ".py", ".txt"}, count : Counts]

Init ==
    /\ next_request_time = 0
    /\ current_temp_storage_url = 0
    /\ access_token = "none"
    /\ NoFrames
    /\ maxd = 0
    /\ args \in Arguments
    /\ upload = NoUpload
    /\ uploaded = NoCounts
    /\ timeout_seconds = 0
    /\ entry = "main"
    /\ pc = "main"

Next ==
    \/ MainStart
    \/ SessionInit
    \/ SelectExecutor
    \/ PsLoop
    \/ PyStart
    \/ PipGet
    \/ PipCheck
    \/ PipDel
    \/ PyLoop
    \/ UploadSas
    \/ UploadBlob
    \/ UploadReg
    \/ WaitStart
    \/ WaitLoop
    \/ WaitPoll
    \/ WaitForNextRequest
    \/ HttpAttempt
    \/ HttpExhausted

Spec == Init /\ [][Next]_vars

\* ------------------------------------------------------------------ claims

\* The range of a sequence.
Range(seq) == {seq[i] : i \in DOMAIN seq}

\* C1: a helper call with retries = n sends at most n requests and ends in one
\* of three ways: it returns a response, it raises an HTTPError, or, only when
\* all n attempts were transient failures, it raises the max-retries
\* CloudMinerException.
C1_ThreeOutcomes ==
    /\ hsent <= hargs.retries
    /\ hpc = "done" =>
         \/ hres.kind = "return"
         \/ hres.kind = "HTTPError"
         \/ /\ hres = CloudMinerException("max retries")
            /\ hsent = hargs.retries
            /\ hslept = hargs.retries

\* C2: a response with status 429, 502 or 503, and an attempt that ends in a
\* transport exception, never ends the call on that attempt: no HTTPError with
\* such a status and no transport exception reaches the caller.
C2_TransientNeverRaised ==
    hpc = "done" =>
        /\ ~(hres.kind = "HTTPError" /\ hres.status \in {429, 502, 503})
        /\ hres.kind # "TransportException"

C4_RequestsSpaced ==
    nreq >= 2 => reqGap >= TIME_BETWEEN_REQUESTS_SECONDS

\* C5: the constructor sends one validation GET through the helper and goes
\* on only if it came back with a response that is no error; a 401 becomes the
\* CloudMinerException 'invalid access token', a 400 'invalid account id', a
\* 404 'account does not exist', and any other HTTPError leaves unchanged.
C5_SessionValidation ==
    /\ pc = "init" =>
         /\ hargs.method = "GET" /\ hargs.target = "account"
         /\ validation = NoResult
         /\ ~uploadSent
    /\ "executor" \in Range(steps) =>
         validation.kind = "return" /\ validation.status < 400
    /\ validation.kind = "HTTPError" =>
         /\ pc = "done"
         /\ validation.status = 401 => result = CloudMinerException("invalid access token")
         /\ validation.status = 400 => result = CloudMinerException("invalid account id")
         /\ validation.status = 404 => result = CloudMinerException("account does not exist")
         /\ validation.status \notin {401, 400, 404} => result = validation

\* C5's case: the validation request came back 500, which left the constructor
\* as the HTTPError it was.
C5_Witness ==
    /\ validation = HTTPError(500)
    /\ result = HTTPError(500)
    /\ pc = "done"

\* The states the wait reads that are neither Succeeded nor Failed.
InProgress == PackageData \ {"empty", "Succeeded", "Failed"}

\* C6: the wait returns normally if and only if a poll read 'Succeeded'; it
\* raises a CloudMinerException when a poll reads 'Failed', when a poll finds
\* the package absent (404, or empty data), and when the deadline passes with no
\* terminal state read.
C6_WaitOutcome ==
    (entry = "wait" /\ pc = "done") =>
        /\ (result.kind = "return") <=> (upload_state = "Succeeded")
        /\ upload_state = "Failed" => result = CloudMinerException("upload failed")
        /\ upload_state \in {"None", "empty"} =>
               result = CloudMinerException("upload did not start")
        /\ (upload_state \in InProgress \/ polls = 0) =>
               /\ result = CloudMinerException("upload timed out")
               /\ elapsed >= timeout_seconds
        /\ result = CloudMinerException("upload timed out") =>
               /\ elapsed >= timeout_seconds
               /\ upload_state \notin {"Succeeded", "Failed"}

\* C6's case: a wait that polled three times and returned.
C6_Witness ==
    /\ entry = "wait"
    /\ pc = "done"
    /\ result.kind = "return"
    /\ polls = 3

\* C7: whatever the server reports, the wait ends: it returns or raises.
C7_WaitTerminates == <>(pc = "done")

\* C7's case: a server that never reported a terminal state, and the wait of
\* 300 seconds that ended by its deadline.
C7_Witness ==
    /\ entry = "wait"
    /\ pc = "done"
    /\ timeout_seconds = UPLOAD_TIMEOUT
    /\ result = CloudMinerException("upload timed out")
    /\ upload_state = "Creating"

\* C8: a wait returns or raises no later than timeout_seconds after it started.
C8_WaitWithinTimeout ==
    (entry = "wait" /\ pc = "done" /\ timeout_seconds >= 0) =>
        elapsed <= timeout_seconds

\* The kinds of payload execute_script uploads.
PayloadKinds == {"module", "pip", "dummy"}

\* len(range(count)): the iterations of `for index in range(count)`
Executions(count) == IF count > 0 THEN count ELSE 0

\* C9: in a run that reports success every payload uploaded was polled for
\* completion.
C9_EveryUploadPolled ==
    (entry = "main" /\ pc = "done" /\ result.kind = "return") =>
        \A k \in PayloadKinds : uploaded[k] > 0 => k \in polled

\* C9 as amended: only the 'pip' package of the Python executor is polled; a run
\* of the Python executor that reports success uploaded 'pip' once, polled it
\* until it read 'Succeeded' and then uploaded count dummy packages it did not
\* poll; a run of the PowerShell executor uploaded count modules and polled none.
C9_OnlyPipPolled ==
    /\ polled \subseteq {"pip"}
    /\ "pip" \in polled => uploaded.pip = 1
    /\ uploaded.dummy > 0 => upload_state = "Succeeded"
    /\ (entry = "main" /\ pc = "done" /\ result.kind = "return") =>
         /\ args.ext = ".py" =>
              /\ polled = {"pip"}
              /\ upload_state = "Succeeded"
              /\ uploaded = [module |-> 0, pip |-> 1, dummy |-> Executions(args.count)]
         /\ args.ext = ".ps1" =>
              /\ polled = {}
              /\ uploaded = [module |-> Executions(args.count), pip |-> 0, dummy |-> 0]

\* C9's case: a run of the Python executor that reports success after a dummy
\* package was uploaded and not polled.
C9_Witness ==
    /\ entry = "main"
    /\ pc = "done"
    /\ result.kind = "return"
    /\ uploaded.dummy = 1
    /\ "dummy" \notin polled

\* The order of the steps of main.
StepOrder == <<"paths", "cli", "token", "session", "executor", "execute">>

\* The place of each step in StepOrder.
RankOf == [step \in Range(StepOrder) |->
              CHOOSE i \in DOMAIN StepOrder : StepOrder[i] = step]

Rank(step) == RankOf[step]

\* The steps were taken in the order of StepOrder, none twice.
InStepOrder(seq) ==
    \A i \in 1..(Len(seq) - 1) : Rank(seq[i]) < Rank(seq[i + 1])

\* The order of main's steps, and no upload request unless the paths were
\* there, the session was validated and the extension is .ps1 or .py.
MainOrder ==
    LET taken == Range(steps)
    IN /\ InStepOrder(steps)
       /\ "session" \in taken => {"paths", "token"} \subseteq taken
       /\ "executor" \in taken => "session" \in taken
       /\ nreq > 0 => "session" \in taken
       /\ uploadSent =>
            /\ "execute" \in taken
            /\ args.path
            /\ validation.kind = "return"
            /\ args.ext \in {".ps1", ".py"}
       /\ (pc = "done" /\ "execute" \notin taken) => ~uploadSent

\* C10: main's steps come in the fixed order, the external CLI is asked only
\* when no token argument was given, and no upload request is sent when a path
\* check failed, the validation raised or the extension is neither .ps1 nor .py.
C10_MainOrder ==
    [][ /\ MainOrder'
        /\ (pc = "main" /\ "cli" \in Range(steps')) => args.token = "none"
      ]_vars

\* C10 as amended: the same, with the external CLI asked only when the token
\* argument is missing or the empty string.
C10_MainOrderEmptyToken ==
    [][ /\ MainOrder'
        /\ (pc = "main" /\ "cli" \in Range(steps')) => args.token \in {"none", "empty"}
        /\ (pc = "main" /\ "token" \in Range(steps') /\ "cli" \notin Range(steps'))
               => args.token = "given"
      ]_vars

\* C10's case: a run that asked the CLI for the token and went on to send an
\* upload request.
C10_Witness ==
    /\ "cli" \in Range(steps)
    /\ uploadSent
    /\ args.ext = ".py"

\* C11: once the session is constructed, no operation on it changes a field of
\* it other than __next_request_time.
C11_OnlyTimestampChanges ==
    [][ pc \notin {"main", "init"} =>
          /\ access_token' = access_token
          /\ current_temp_storage_url' = current_temp_storage_url
      ]_vars

\* C11 as amended: once the session is constructed its access token never
\* changes, and besides __next_request_time the one field that does is
\* __current_temp_storage_url, which an upload sets to the link its GET
\* returned, at the moment that GET returns without an error.
C11_TimestampAndStorageLink ==
    [][ pc \notin {"main", "init"} =>
          /\ access_token' = access_token
          /\ current_temp_storage_url' # current_temp_storage_url =>
                /\ pc = "up_sas"
                /\ hargs.target = "sas"
                /\ hres.kind = "return"
                /\ current_temp_storage_url' = upload'.link
                /\ upload'.link = upload.seq
      ]_vars

\* C11's case: the second upload of a run has replaced the link the first one
\* left in the session, and the run is over.
C11_Witness ==
    /\ entry = "main"
    /\ pc = "done"
    /\ uploaded.pip = 1
    /\ current_temp_storage_url = 2

\* The helper's result is an HTTPError of a status other than 404.
OtherHTTPError(r) == r.kind = "HTTPError" /\ r.status # NOT_FOUND

\* C12: get_python_package gives None exactly when the server answers 404 and
\* the package data when the request succeeds; delete_python_package turns a
\* 404 into the CloudMinerException 'package does not exist'; both let every
\* other HTTPError and the max-retries CloudMinerException through unchanged.
\* Seen at their callers: the existence check of 'pip' (which keeps what it got
\* in pip_package), the poll of the wait (a None is an upload that did not
\* start) and the DELETE of 'pip'.
C12_GetAndDeleteMapping ==
    [][ /\ (pc = "pip_get" /\ hpc = "done") =>
              /\ (pip_package' = "None") <=> (hres = HTTPError(NOT_FOUND))
              /\ hres = HTTPError(NOT_FOUND) =>
                    /\ pc' = "pip_check"
                    /\ result' = NoResult
              /\ hres.kind = "return" =>
                    /\ pc' = "pip_check"
                    /\ pip_package' \in PackageData
              /\ (OtherHTTPError(hres) \/ hres = CloudMinerException("max retries")) =>
                    pc' = "done" /\ result' = hres
        /\ (pc = "wait_get" /\ hpc = "done") =>
              /\ (upload_state' = "None") <=> (hres = HTTPError(NOT_FOUND))
              /\ hres = HTTPError(NOT_FOUND) =>
                    result' = CloudMinerException("upload did not start")
              /\ hres.kind = "return" => upload_state' \in PackageData
              /\ (OtherHTTPError(hres) \/ hres = CloudMinerException("max retries")) =>
                    pc' = "done" /\ result' = hres
        /\ (pc = "pip_del" /\ hpc = "done") =>
              /\ hres = HTTPError(NOT_FOUND) =>
                    /\ pc' = "done"
                    /\ result' = CloudMinerException("package does not exist")
              /\ hres.kind = "return" =>
                    /\ pc' = "up_sas"
                    /\ upload'.kind = "pip"
              /\ (OtherHTTPError(hres) \/ hres = CloudMinerException("max retries")) =>
                    pc' = "done" /\ result' = hres
      ]_vars

\* C12's case: the DELETE of 'pip' was answered 404 and the run ended with
\* 'package does not exist'.
C12_Witness ==
    /\ pc = "done"
    /\ hargs.method = "DELETE"
    /\ hres = HTTPError(NOT_FOUND)
    /\ result = CloudMinerException("package does not exist")

\* The trigger uploads completed: modules for PowerShell, dummy packages for
\* Python.
TriggerUploads == uploaded.module + uploaded.dummy

\* All uploads completed.
TotalUploads == uploaded.module + uploaded.pip + uploaded.dummy

\* An exception left an upload of a trigger: that upload was begun and not
\* completed, it is the last one begun, and fewer than count were completed.
AbortedTrigger ==
    (pc = "done" /\ IsException(result) /\ upload.kind \in {"module", "dummy"}) =>
        /\ upload.seq = TotalUploads + 1
        /\ TriggerUploads < args.count

\* C13: an execute_script(count) that returns normally has made exactly count
\* trigger uploads (and, for Python, the one upload of 'pip' besides), one at a
\* time; an exception in an upload ends the run with no later upload.
C13_CountTriggerUploads ==
    /\ (entry = "main" /\ pc = "done" /\ result.kind = "return") =>
          /\ TriggerUploads = args.count
          /\ uploaded.pip = (IF args.ext = ".py" THEN 1 ELSE 0)
    /\ upload.seq \in {TotalUploads, TotalUploads + 1}
    /\ AbortedTrigger

\* C13 as amended: the number of trigger uploads of a run that returns normally
\* is the length of range(count), which is count when count >= 0 and 0 when
\* count is negative; the rest as in C13.
C13_RangeCountTriggerUploads ==
    /\ (entry = "main" /\ pc = "done" /\ result.kind = "return") =>
          /\ TriggerUploads = Executions(args.count)
          /\ uploaded.pip = (IF args.ext = ".py" THEN 1 ELSE 0)
          /\ args.ext = ".ps1" => uploaded.dummy = 0
          /\ args.ext = ".py" => uploaded.module = 0
    /\ TriggerUploads <= Executions(args.count)
    /\ pc \in {"ps_loop", "py_loop"} => index = TriggerUploads
    /\ upload.seq \in {TotalUploads, TotalUploads + 1}
    /\ AbortedTrigger

\* C13's case: the PowerShell executor was run with count = 1, uploaded one
\* module and returned.
C13_Witness ==
    /\ entry = "main"
    /\ pc = "done"
    /\ result.kind = "return"
    /\ args.ext = ".ps1"
    /\ args.count = 1
    /\ uploaded.module = 1

\* The provisioning states that end a wait.
Terminal == {"Succeeded", "Failed"}

\* C14: in the wait a poll is started only while the time since the start is
\* strictly less than timeout_seconds; the loop test is reached from the start
\* of the wait or from a poll that read no terminal state and was followed by a
\* sleep of exactly 20 seconds; a poll that read 'Succeeded' or 'Failed' is
\* followed by no sleep and no poll: the wait ends there.
C14_PollSpacing ==
    [][ /\ (pc = "wait_loop" /\ pc' = "wait_get") =>
              /\ elapsed < timeout_seconds
              /\ polls' = polls + 1
        /\ pc' = "wait_loop" => pc \in {"wait_start", "wait_get", "wait_loop"}
        /\ (pc = "wait_get" /\ pc' = "wait_loop") =>
              /\ elapsed' = elapsed + 20 * TicksPerSecond
              /\ upload_state' \notin Terminal
        /\ (pc = "wait_get" /\ upload_state' \in Terminal) =>
              /\ pc' = "done"
              /\ elapsed' = elapsed
              /\ sinceReq' = sinceReq
              /\ next_request_time' = next_request_time
        /\ upload_state \in Terminal => (pc = "done" /\ polls' = polls)
      ]_vars

\* C14's case: the second poll of a wait is under way, 20 seconds after the
\* start: the first poll took no time and was followed by the sleep.
C14_Witness ==
    /\ entry = "wait"
    /\ pc = "wait_get"
    /\ polls = 2
    /\ elapsed = 20 * TicksPerSecond

\* The five values of UPLOAD_STATE between creation and the end.
Intermediate == {"Creating", "ContentValidated", "ContentDownloaded",
                 "ConnectionTypeImported", "RunningImportModuleRunbook"}

\* C15: a poll that reads one of the five intermediate states, or a string
\* that is no value of the enum, reports nothing: the wait sleeps its 20
\* seconds and goes back to the loop test, which polls again unless the
\* deadline has passed; a wait that ends with such a state as the last one
\* read ends by the timeout, never as a success or an upload failure.
C15_IntermediateInProgress ==
    [][ /\ InProgress = Intermediate \cup {"Other"}
        /\ (pc = "wait_get" /\ upload_state' \in InProgress) =>
              /\ pc' = "wait_loop"
              /\ result' = NoResult
              /\ elapsed' = elapsed + UPLOAD_STATE_CHECK_INTERVAL_SECONDS
        /\ (pc = "wait_loop" /\ upload_state \in InProgress) =>
              IF elapsed < timeout_seconds
              THEN pc' = "wait_get" /\ polls' = polls + 1 /\ result' = NoResult
              ELSE pc' = "done" /\ result' = CloudMinerException("upload timed out")
        /\ (pc' = "done" /\ upload_state' \in InProgress) =>
              result' = CloudMinerException("upload timed out")
      ]_vars

\* C15's case: the first poll read a string that is no value of the enum, and
\* the wait has slept and is back at its loop test with nothing reported.
C15_Witness ==
    /\ entry = "wait"
    /\ pc = "wait_loop"
    /\ polls = 1
    /\ upload_state = "Other"
    /\ result = NoResult

\* The ways a wait ends other than by reading 'Succeeded' or by an exception
\* of the poll's request.
WaitFailures == {CloudMinerException("upload failed"),
                 CloudMinerException("upload did not start"),
                 CloudMinerException("upload timed out")}

\* C16: PythonScriptExecutor.execute_script first asks for the package 'pip';
\* it sends a DELETE of 'pip' if and only if that check came back with a
\* package (not None, not empty data), and sends a DELETE nowhere else; the
\* upload of 'pip' begins after the check, or after the DELETE when there is
\* one, and is the first upload; an upload of a dummy package begins only
\* after the wait for 'pip' read 'Succeeded'; a wait that ends by a failed
\* upload, an absent package or the timeout leaves zero dummy uploads.
C16_PythonOrder ==
    [][ /\ pc = "py_start" =>
              /\ pc' = "pip_get"
              /\ hargs'.method = "GET" /\ hargs'.target = "package"
              /\ upload.seq = 0
              /\ ~uploadSent
        /\ pc = "pip_check" =>
              /\ (pc' = "pip_del") <=> (pip_package \notin {"None", "empty"})
              /\ pc' = "pip_del" =>
                    hargs'.method = "DELETE" /\ hargs'.target = "package"
              /\ pc' # "pip_del" => (pc' = "up_sas" /\ upload'.kind = "pip")
        /\ (hargs'.method = "DELETE" /\ hargs.method # "DELETE") => pc = "pip_check"
        /\ (pc = "pip_del" /\ hpc = "done") =>
              IF IsException(hres)
              THEN pc' = "done" /\ upload' = upload
              ELSE pc' = "up_sas" /\ upload'.kind = "pip"
        /\ (upload'.kind = "pip" /\ upload.kind # "pip") =>
              /\ pc \in {"pip_check", "pip_del"}
              /\ upload'.seq = 1
        /\ (upload'.kind = "dummy" /\ upload'.seq # upload.seq) =>
              /\ pc = "py_loop"
              /\ upload_state = "Succeeded"
              /\ "pip" \in polled
              /\ uploaded.pip = 1
        /\ (pc' = "done" /\ result' \in WaitFailures) =>
              /\ uploaded'.dummy = 0
              /\ upload'.kind = "pip"
              /\ upload'.seq = 1
      ]_vars

\* C16's case: the check found 'pip', the DELETE was sent and answered without
\* an error, and the upload of 'pip' is about to begin.
C16_Witness ==
    /\ entry = "main"
    /\ pc = "pip_del"
    /\ hpc = "done"
    /\ lastReq.method = "DELETE"
    /\ hres.kind = "return"

\* The helper call in progress, or the last one made.
CallIs(method, target) == hargs.method = method /\ hargs.target = target

\* Where an upload stands: its three helper calls, each with the link it works
\* with.  Links are numbered by the upload whose GET returned them.
UploadSteps ==
    /\ pc = "up_sas" =>
          /\ CallIs("GET", "sas")
          /\ upload.link = 0
          /\ upload.reg = 0
    /\ pc = "up_blob" =>
          /\ CallIs("PUT", "blob")
          /\ upload.link = upload.seq
          /\ upload.reg = 0
    /\ pc = "up_reg" =>
          /\ CallIs("PUT", RegistrationTarget(upload.kind))
          /\ upload.link = upload.seq
          /\ upload.reg = upload.link
    /\ upload.reg # 0 => upload.reg = upload.seq

\* C17: an upload makes its helper calls in the order GET of the link, PUT of
\* the file, PUT of the registration; each later call is made only when the
\* one before returned a response without an error, an exception of any of
\* them ends the upload with that exception, and the contentLink of the
\* registration is the link the GET of this same upload returned.
C17_UploadThreeCalls ==
    [][ /\ UploadSteps'
        /\ (pc' = "up_sas" /\ pc # "up_sas") => upload'.seq = upload.seq + 1
        /\ pc' = "up_blob" => pc \in {"up_sas", "up_blob"}
        /\ pc' = "up_reg" => pc \in {"up_blob", "up_reg"}
        /\ (pc \in {"up_sas", "up_blob", "up_reg"} /\ pc' # pc) =>
              /\ hpc = "done"
              /\ IF IsException(hres)
                 THEN /\ pc' = "done"
                      /\ result' = hres
                      /\ uploaded' = uploaded
                 ELSE /\ hres.kind = "return"
                      /\ hres.status < 400
                      /\ pc = "up_sas" => pc' = "up_blob"
                      /\ pc = "up_blob" => pc' = "up_reg"
                      /\ pc = "up_reg" =>
                            uploaded' = [uploaded EXCEPT ![upload.kind] = @ + 1]
        /\ uploaded' # uploaded => pc = "up_reg"
      ]_vars

\* C17's case: the second upload of a run is at its registration, with the
\* link its own GET returned.
C17_Witness ==
    /\ pc = "up_reg"
    /\ hpc = "done"
    /\ hres.kind = "return"
    /\ upload.seq = 2
    /\ upload.reg = 2
    /\ current_temp_storage_url = 2

\* C18: every request of the session carries the Authorization header with the
\* access token, on every attempt, except the requests to the temporary
\* storage link, which are the PUT of the file and never carry it.
C18_TokenOnAllButBlob ==
    /\ nreq > 0 =>
          /\ lastReq.auth <=> (lastReq.target # "blob")
          /\ lastReq.target = "blob" => lastReq.method = "PUT"
          /\ lastReq.auth => access_token \in {"argument", "cli"}
    /\ hpc \in {"wait", "loop"} => (hargs.auth <=> (hargs.target # "blob"))

\* C18's case: the PUT of the file was retried, and its second attempt went
\* out without the token like the first.
C18_Witness ==
    /\ entry = "main"
    /\ lastReq = [target |-> "blob", method |-> "PUT", auth |-> FALSE]
    /\ hsent = 2

\* The least integer not below a / b, for b > 0.
CeilDiv(a, b) == (a + b - 1) \div b

\* C19: a wait sends at most ceil(timeout_seconds / 20) polls, which is 15 for
\* the default timeout of 300 seconds; with timeout_seconds <= 0 it sends no
\* request at all and can only end by the timeout exception, whatever state
\* the package is in.
C19_PollBound ==
    entry = "wait" =>
        /\ timeout_seconds > 0 =>
              polls <= CeilDiv(timeout_seconds, 20 * TicksPerSecond)
        /\ timeout_seconds = 300 * TicksPerSecond => polls <= 15
        /\ timeout_seconds <= 0 =>
              /\ polls = 0
              /\ nreq = 0
              /\ pc \in {"wait_start", "wait_loop", "done"}
              /\ pc = "done" => result = CloudMinerException("upload timed out")

\* C19's case: a wait of 300 seconds that sent its fifteenth poll and was
\* ended by the timeout.
C19_Witness ==
    /\ entry = "wait"
    /\ timeout_seconds = 300 * TicksPerSecond
    /\ polls = 15
    /\ pc = "done"
    /\ result = CloudMinerException("upload timed out")

====
